---- MODULE Spec2Model ----
(***************************************************************************)
(* Program locations of the Falcon IL (lib/il/location.rs).                *)
(*                                                                         *)
(* A Program is a sequence of Functions in index order, a Function holds   *)
(* the blocks of its control flow graph in index order and, per block, the *)
(* out-edges in the graph's enumeration order, a Block holds its           *)
(* instructions in order.  A reference (&Function, &Block, &Instruction,   *)
(* &Edge) is the path of the object it points at: the program instance and *)
(* the positions leading to it.  Indices are the numbers the objects       *)
(* carry; positions and indices differ as soon as something was removed.   *)
(***************************************************************************)
EXTENDS Integers, Sequences, FiniteSets, TLC

\* Bound on the size of a program: functions + blocks + instructions + edges.
MaxSize == 6

\* Option<T>
None == <<>>
Some(v) == <<v>>
IsSome(o) == o # <<>>
Unwrapped(o) == o[1]

\* Result<T> and a panic (Option::unwrap on None)
Ok(v) == [tag |-> "Ok", val |-> v]
Err(kind, msg) == [tag |-> "Err", kind |-> kind, msg |-> msg]
Panic == [tag |-> "panic"]

Min(S) == CHOOSE x \in S : \A y \in S : x <= y

(***************************************************************************)
(* The programs the operations are run on.                                 *)
(***************************************************************************)
\* An instruction has no address or the address 0: from_address only compares
\* addresses for equality, and it is also asked for an address no instruction has.
Addresses == {None, Some(0)}
AddressesSought == {0, 1}

RECURSIVE TailLists(_, _)
TailLists(tails, m) ==
    IF m = 0 THEN {<<>>}
    ELSE {<<>>} \cup UNION {{<<t>> \o r : r \in TailLists(tails \ {t}, m - 1)} : t \in tails}

InstructionLists(n) ==
    {[i \in 1..n |-> [index |-> i - 1, address |-> a[i]]] : a \in [1..n -> Addresses]}

\* A block together with its out-edges: <<block, edges out of it>>.
VerticesAt(k, nb, budget) ==
    UNION {{<<[index |-> k - 1, instructions |-> is],
              [e \in 1..Len(o) |-> [head |-> k - 1, tail |-> o[e]]]>> :
              is \in InstructionLists(n), o \in TailLists(0..(nb - 1), budget - n)}
           : n \in 0..budget}

VertexCost(v) == Len(v[1].instructions) + Len(v[2])

RECURSIVE VertexSeqs(_, _, _)
VertexSeqs(k, nb, budget) ==
    IF k > nb THEN {<<>>}
    ELSE UNION {{<<v>> \o r : r \in VertexSeqs(k + 1, nb, budget - VertexCost(v))}
                : v \in VerticesAt(k, nb, budget)}

MkFunction(index, vs) ==
    [index |-> index,
     blocks |-> [k \in 1..Len(vs) |-> vs[k][1]],
     edges_out |-> [k \in 1..Len(vs) |-> vs[k][2]]]

Functions(idx, budget) ==
    UNION {{MkFunction(Some(idx), vs) : vs \in VertexSeqs(1, nb, budget - 1 - nb)}
           : nb \in 1..(budget - 1)}

RECURSIVE SumLen(_)
SumLen(ss) == IF ss = <<>> THEN 0 ELSE Len(Head(ss)) + SumLen(Tail(ss))

FunctionSize(f) ==
    1 + Len(f.blocks) + SumLen([k \in 1..Len(f.blocks) |-> f.blocks[k].instructions])
      + SumLen(f.edges_out)

RECURSIVE ProgramsFrom(_, _)
ProgramsFrom(idx, budget) ==
    {<<>>} \cup
    UNION {{<<f>> \o r : r \in ProgramsFrom(idx + 1, budget - FunctionSize(f))}
           : f \in Functions(idx, budget)}

Programs == ProgramsFrom(0, MaxSize)

\* A function that was never added to a program: it has no index.
Detached ==
    [index |-> None,
     blocks |-> <<[index |-> 0, instructions |-> <<[index |-> 0, address |-> None]>>],
                  [index |-> 1, instructions |-> <<[index |-> 1, address |-> None]>>]>>,
     edges_out |-> <<<<[head |-> 0, tail |-> 0], [head |-> 0, tail |-> 1]>>, <<>>>>]

\* s without its k-th element
Without(s, k) == [j \in 1..(Len(s) - 1) |-> IF j < k THEN s[j] ELSE s[j + 1]]
Replace(s, k, v) == [s EXCEPT ![k] = v]

RemoveInstruction(f, b, i) ==
    [f EXCEPT !.blocks[b].instructions = Without(@, i)]
RemoveEdge(f, b, e) ==
    [f EXCEPT !.edges_out[b] = Without(@, e)]
RemoveBlock(f, b) ==
    LET gone == f.blocks[b].index
        kept(es) == SelectSeq(es, LAMBDA x : x.tail # gone)
        rest == Without(f.edges_out, b)
    IN [f EXCEPT !.blocks = Without(@, b),
                 !.edges_out = [k \in 1..Len(rest) |-> kept(rest[k])]]

\* The instances a location of p may be applied or migrated to: a clone of p,
\* and p after a pass removed one function, block, instruction or edge.
Targets(p) ==
    {p}
    \cup {Without(p, f) : f \in 1..Len(p)}
    \cup UNION {{Replace(p, f, RemoveBlock(p[f], b)) : b \in 1..Len(p[f].blocks)}
                : f \in 1..Len(p)}
    \cup UNION {UNION {{Replace(p, f, RemoveInstruction(p[f], b, i)) :
                          i \in 1..Len(p[f].blocks[b].instructions)}
                       : b \in 1..Len(p[f].blocks)}
                : f \in 1..Len(p)}
    \cup UNION {UNION {{Replace(p, f, RemoveEdge(p[f], b, e)) :
                          e \in 1..Len(p[f].edges_out[b])}
                       : b \in 1..Len(p[f].blocks)}
                : f \in 1..Len(p)}

VARIABLES
    program,    \* the Program the locations are created in
    target,     \* the Program handed to the last apply or migrate; a clone of program otherwise
    op,         \* the operation that ran last
    held,       \* the borrowed location the last operation was called on or lowered from
    owned,      \* the ProgramLocation the caller keeps
    to,         \* the instance the last apply or migrate resolved against
    addr,       \* the address the last from_address looked for
    ret         \* what the last operation returned

vars == <<program, target, op, held, owned, to, addr, ret>>

(***************************************************************************)
(* References and the read-only navigation of the graph.                   *)
(***************************************************************************)
Instance(name) ==
    CASE name = "program" -> program
      [] name = "target" -> target
      [] name = "detached" -> <<Detached>>

FunctionRef(prog, f) == [prog |-> prog, f |-> f]
BlockRef(fr, b) == [prog |-> fr.prog, f |-> fr.f, b |-> b]
InstructionRef(br, i) == [prog |-> br.prog, f |-> br.f, b |-> br.b, i |-> i]
EdgeRef(fr, b, e) == [prog |-> fr.prog, f |-> fr.f, b |-> b, e |-> e]

FunctionAt(r) == Instance(r.prog)[r.f]
BlockAt(r) == FunctionAt(r).blocks[r.b]
InstructionAt(r) == BlockAt(r).instructions[r.i]
EdgeAt(r) == FunctionAt(r).edges_out[r.b][r.e]

\* Program::function(index)
Program_function(p, index) ==
    LET S == {k \in 1..Len(p) : p[k].index = Some(index)}
    IN IF S = {} THEN None ELSE Some(Min(S))

\* Function::block(index)
Function_block(f, index) ==
    LET S == {k \in 1..Len(f.blocks) : f.blocks[k].index = index}
    IN IF S = {} THEN None ELSE Some(Min(S))

\* Block::instruction(index)
Block_instruction(b, index) ==
    LET S == {k \in 1..Len(b.instructions) : b.instructions[k].index = index}
    IN IF S = {} THEN None ELSE Some(Min(S))

\* Function::edge(head, tail): the position <<block, out-edge>> of the edge
Function_edge(f, head, tail) ==
    LET S == {be \in UNION {{<<b, e>> : e \in 1..Len(f.edges_out[b])} : b \in 1..Len(f.blocks)} :
                f.edges_out[be[1]][be[2]] = [head |-> head, tail |-> tail]}
    IN IF S = {} THEN None ELSE Some(CHOOSE be \in S : TRUE)

\* ControlFlowGraph::edges_out(index): the out-edges of the block, in the graph's order
edges_out(f, index) ==
    LET b == Function_block(f, index)
    IN IF b = None THEN None
       ELSE Some([e \in 1..Len(f.edges_out[b[1]]) |-> <<b[1], e>>])

(***************************************************************************)
(* Borrowed and owned locations.                                           *)
(***************************************************************************)
RefInstruction(block, instruction) ==
    [variant |-> "Instruction", block |-> block, instruction |-> instruction]
RefEdge(edge) == [variant |-> "Edge", edge |-> edge]
RefEmptyBlock(block) == [variant |-> "EmptyBlock", block |-> block]

\* RefProgramLocation::new
new(function, function_location) ==
    [function |-> function, function_location |-> function_location]

OwnedInstruction(block_index, instruction_index) ==
    [variant |-> "Instruction", block_index |-> block_index,
     instruction_index |-> instruction_index]
OwnedEdge(head, tail) == [variant |-> "Edge", head |-> head, tail |-> tail]
OwnedEmptyBlock(block_index) == [variant |-> "EmptyBlock", block_index |-> block_index]

ProgramLocation(function_index, function_location) ==
    [function_index |-> function_index, function_location |-> function_location]

(***************************************************************************)
(* RefProgramLocation                                                      *)
(***************************************************************************)
\* <<f, b, i>> is reached before <<g, c, j>> by the loops over functions,
\* blocks and instructions
VisitedBefore_backwards(x, y) ==
    \/ x[1] > y[1]
    \/ x[1] = y[1] /\ x[2] < y[2]
    \/ x[1] = y[1] /\ x[2] = y[2] /\ x[3] <= y[3]

VisitedBefore(x, y) ==
    \/ x[1] < y[1]
    \/ x[1] = y[1] /\ x[2] < y[2]
    \/ x[1] = y[1] /\ x[2] = y[2] /\ x[3] <= y[3]

\* RefProgramLocation::from_address on the instance p called prog
from_address(p, prog, address) ==
    LET visited == UNION {UNION {{<<f, b, i>> : i \in 1..Len(p[f].blocks[b].instructions)}
                                 : b \in 1..Len(p[f].blocks)}
                          : f \in 1..Len(p)}
        found == {x \in visited :
                    LET iaddress == p[x[1]].blocks[x[2]].instructions[x[3]].address
                    IN IsSome(iaddress) /\ Unwrapped(iaddress) = address}
    IN IF found = {} THEN None
       ELSE LET x == CHOOSE x \in found : \A y \in found : VisitedBefore(x, y)
                function == FunctionRef(prog, x[1])
                block == BlockRef(function, x[2])
            IN Some(new(function, RefInstruction(block, InstructionRef(block, x[3]))))

MigrationError(msg) == Err("ProgramLocationMigration", msg)

\* migrate: the function of the location, looked up in the instance p
MigratedFunction_first(self, p) ==
    LET index == FunctionAt(self.function).index
    IN IF index = None THEN Panic
       ELSE LET found == Program_function(p, Unwrapped(index))
            IN IF found = None
               THEN IF p = <<>> THEN MigrationError(<<"Could not find function">>) ELSE Ok(1)
               ELSE Ok(Unwrapped(found))

MigratedFunction(self, p) ==
    LET index == FunctionAt(self.function).index
    IN IF index = None THEN Panic
       ELSE LET found == Program_function(p, Unwrapped(index))
            IN IF found = None
               THEN MigrationError(<<"Could not find function ", Unwrapped(index)>>)
               ELSE Ok(Unwrapped(found))

\* migrate: the instruction of an Instruction location, looked up in the block found
MigratedInstruction_by_block_index(block, loc) ==
    Block_instruction(block, BlockAt(loc.block).index)

MigratedInstruction(block, loc) ==
    Block_instruction(block, InstructionAt(loc.instruction).index)

\* migrate: the edge of an Edge location, looked up by its head and tail
MigratedEdge_swapped(function, e) == Function_edge(function, e.tail, e.head)

MigratedEdge(function, e) == Function_edge(function, e.head, e.tail)

\* RefProgramLocation::migrate to the instance p called prog
migrate(self, p, prog) ==
    LET found == MigratedFunction(self, p)
    IN IF found.tag # "Ok" THEN found
       ELSE
    LET fr == FunctionRef(prog, found.val)
        function == p[found.val]
        loc == self.function_location
    IN CASE loc.variant = "Instruction" ->
              LET block_index == BlockAt(loc.block).index
                  block == Function_block(function, block_index)
              IN IF block = None
                 THEN MigrationError(<<"Could not find block ", block_index>>)
                 ELSE LET br == BlockRef(fr, Unwrapped(block))
                          instruction == MigratedInstruction(function.blocks[br.b], loc)
                      IN IF instruction = None
                         THEN MigrationError(<<"Could not find instruction ",
                                               InstructionAt(loc.instruction).index>>)
                         ELSE Ok(new(fr, RefInstruction(br,
                                        InstructionRef(br, Unwrapped(instruction)))))
         [] loc.variant = "Edge" ->
              LET e == EdgeAt(loc.edge)
                  edge == MigratedEdge(function, e)
              IN IF edge = None
                 THEN MigrationError(<<"Could not find edge ", e.head, ",", e.tail>>)
                 ELSE Ok(new(fr, RefEdge(EdgeRef(fr, Unwrapped(edge)[1], Unwrapped(edge)[2]))))
         [] loc.variant = "EmptyBlock" ->
              LET block_index == BlockAt(loc.block).index
                  block == Function_block(function, block_index)
              IN IF block = None
                 THEN MigrationError(<<"Could not find empty block ", block_index>>)
                 ELSE Ok(new(fr, RefEmptyBlock(BlockRef(fr, Unwrapped(block)))))

\* bail!(...) whose message formats self.function.index().unwrap()
Bail(self, msg) ==
    LET index == FunctionAt(self.function).index
    IN IF index = None THEN Panic
       ELSE Err("Msg", msg \o <<" in function ", Unwrapped(index)>>)

\* advance_instruction_forward: the location of the instruction after the i-th
NextInstruction_same(self, block, i) ==
    new(self.function, RefInstruction(block, InstructionRef(block, i)))

NextInstruction_of_block(self, block, i) ==
    new(FunctionRef(block.prog, block.f), RefInstruction(block, InstructionRef(block, i + 1)))

NextInstruction(self, block, i) ==
    new(self.function, RefInstruction(block, InstructionRef(block, i + 1)))

\* advance_instruction_forward: the out-edges of the block that ended
BlockEdgesOut_nonempty(self, block) ==
    LET edges == edges_out(FunctionAt(self.function), BlockAt(block).index)
    IN IF edges = Some(<<>>) THEN None ELSE edges

BlockEdgesOut_of_first(self, block) ==
    edges_out(FunctionAt(self.function), FunctionAt(self.function).blocks[1].index)

BlockEdgesOut(self, block) ==
    edges_out(FunctionAt(self.function), BlockAt(block).index)

\* advance_instruction_forward: one Edge location pushed per out-edge
InstructionEdgeLocations_skip(self, edges) ==
    [k \in 1..(Len(edges) - 1) |->
       new(self.function, RefEdge(EdgeRef(self.function, edges[k + 1][1], edges[k + 1][2])))]

InstructionEdgeLocations(self, edges) ==
    [k \in 1..Len(edges) |->
       new(self.function, RefEdge(EdgeRef(self.function, edges[k][1], edges[k][2])))]

\* advance_instruction_forward: is there another instruction after the i-th
HasNext_but_one(instructions, i) == i + 2 <= Len(instructions)

HasNext(instructions, i) == i + 1 <= Len(instructions)

\* RefProgramLocation::advance_instruction_forward
advance_instruction_forward(self, block, instruction) ==
    LET instructions == BlockAt(block).instructions
        hits == {i \in 1..Len(instructions) :
                   instructions[i].index = InstructionAt(instruction).index}
    IN IF hits = {}
       THEN Bail(self, <<"Could not find instruction ", InstructionAt(instruction).index,
                         " in block ", BlockAt(block).index>>)
       ELSE LET i == Min(hits)
            IN IF HasNext(instructions, i)
               THEN Ok(<<NextInstruction(self, block, i)>>)
               ELSE LET edges == BlockEdgesOut(self, block)
                    IN IF edges = None
                       THEN Bail(self, <<"Could not find block ", BlockAt(block).index>>)
                       ELSE Ok(InstructionEdgeLocations(self, Unwrapped(edges)))

\* advance_edge_forward: the location an edge lands on in its tail block
EdgeLanding_empty(self, block) ==
    new(self.function, RefEmptyBlock(block))

EdgeLanding(self, block) ==
    IF BlockAt(block).instructions = <<>>
    THEN new(self.function, RefEmptyBlock(block))
    ELSE new(self.function, RefInstruction(block, InstructionRef(block, 1)))

\* RefProgramLocation::advance_edge_forward
advance_edge_forward(self, edge) ==
    LET block == Function_block(FunctionAt(self.function), EdgeAt(edge).tail)
    IN IF block = None
       THEN Bail(self, <<"Could not find block ", EdgeAt(edge).tail>>)
       ELSE Ok(<<EdgeLanding(self, BlockRef(self.function, Unwrapped(block)))>>)

\* advance_empty_block_forward: one Edge location pushed per out-edge
EmptyBlockEdgeLocations_reversed(self, edges) ==
    [k \in 1..Len(edges) |->
       new(self.function,
           RefEdge(EdgeRef(self.function, edges[Len(edges) + 1 - k][1],
                           edges[Len(edges) + 1 - k][2])))]

EmptyBlockEdgeLocations(self, edges) ==
    [k \in 1..Len(edges) |->
       new(self.function, RefEdge(EdgeRef(self.function, edges[k][1], edges[k][2])))]

\* RefProgramLocation::advance_empty_block_forward
advance_empty_block_forward(self, block) ==
    LET edges == edges_out(FunctionAt(self.function), BlockAt(block).index)
    IN IF edges = None
       THEN Bail(self, <<"Could not find block ", BlockAt(block).index>>)
       ELSE Ok(EmptyBlockEdgeLocations(self, Unwrapped(edges)))

\* RefProgramLocation::advance_forward
advance_forward(self) ==
    LET loc == self.function_location
    IN CASE loc.variant = "Instruction" ->
              advance_instruction_forward(self, loc.block, loc.instruction)
         [] loc.variant = "Edge" -> advance_edge_forward(self, loc.edge)
         [] loc.variant = "EmptyBlock" -> advance_empty_block_forward(self, loc.block)

(***************************************************************************)
(* ProgramLocation and FunctionLocation                                    *)
(***************************************************************************)
\* FunctionLocation::apply: the instruction of an Instruction location, looked
\* up in the block found
AppliedInstruction_by_block_index(block, self) ==
    Block_instruction(block, self.block_index)

AppliedInstruction(block, self) ==
    Block_instruction(block, self.instruction_index)

\* FunctionLocation::apply on the function fr of the instance p
FunctionLocation_apply(self, p, fr) ==
    LET function == p[fr.f]
    IN CASE self.variant = "Instruction" ->
              LET block == Function_block(function, self.block_index)
              IN IF block = None THEN None
                 ELSE LET br == BlockRef(fr, Unwrapped(block))
                          instruction == AppliedInstruction(function.blocks[br.b], self)
                      IN IF instruction = None THEN None
                         ELSE Some(RefInstruction(br,
                                      InstructionRef(br, Unwrapped(instruction))))
         [] self.variant = "Edge" ->
              LET edge == Function_edge(function, self.head, self.tail)
              IN IF edge = None THEN None
                 ELSE Some(RefEdge(EdgeRef(fr, Unwrapped(edge)[1], Unwrapped(edge)[2])))
         [] self.variant = "EmptyBlock" ->
              LET block == Function_block(function, self.block_index)
              IN IF block = None THEN None
                 ELSE Some(RefEmptyBlock(BlockRef(fr, Unwrapped(block))))

\* ProgramLocation::apply on the instance p called prog
apply_in_program(self, p, prog) ==
    LET function == Program_function(p, self.function_index)
    IN IF function = None THEN None
       ELSE LET fr == FunctionRef("program", Unwrapped(function))
                function_location == FunctionLocation_apply(self.function_location, p, fr)
            IN IF function_location = None THEN None
               ELSE Some(new(fr, Unwrapped(function_location)))

apply(self, p, prog) ==
    LET function == Program_function(p, self.function_index)
    IN IF function = None THEN None
       ELSE LET fr == FunctionRef(prog, Unwrapped(function))
                function_location == FunctionLocation_apply(self.function_location, p, fr)
            IN IF function_location = None THEN None
               ELSE Some(new(fr, Unwrapped(function_location)))

\* impl From<RefFunctionLocation> for FunctionLocation
FunctionLocation_from_swapped(function_location) ==
    CASE function_location.variant = "Instruction" ->
           OwnedInstruction(BlockAt(function_location.block).index,
                            InstructionAt(function_location.instruction).index)
      [] function_location.variant = "Edge" ->
           OwnedEdge(EdgeAt(function_location.edge).tail, EdgeAt(function_location.edge).head)
      [] function_location.variant = "EmptyBlock" ->
           OwnedEmptyBlock(BlockAt(function_location.block).index)

FunctionLocation_from(function_location) ==
    CASE function_location.variant = "Instruction" ->
           OwnedInstruction(BlockAt(function_location.block).index,
                            InstructionAt(function_location.instruction).index)
      [] function_location.variant = "Edge" ->
           OwnedEdge(EdgeAt(function_location.edge).head, EdgeAt(function_location.edge).tail)
      [] function_location.variant = "EmptyBlock" ->
           OwnedEmptyBlock(BlockAt(function_location.block).index)

\* impl From<RefProgramLocation> for ProgramLocation
ProgramLocation_from_position(program_location) ==
    LET index == FunctionAt(program_location.function).index
    IN IF index = None THEN Panic
       ELSE ProgramLocation(program_location.function.f - 1,
                            FunctionLocation_from(program_location.function_location))

ProgramLocation_from(program_location) ==
    LET index == FunctionAt(program_location.function).index
    IN IF index = None THEN Panic
       ELSE ProgramLocation(Unwrapped(index),
                            FunctionLocation_from(program_location.function_location))

(***************************************************************************)
(* The caller: it builds locations, looks them up by address, advances,    *)
(* lowers, applies and migrates them.  The programs are never mutated.     *)
(***************************************************************************)
FunctionRefs(prog) == {FunctionRef(prog, f) : f \in 1..Len(Instance(prog))}

\* Every RefFunctionLocation that can be built from the objects of function g;
\* new() validates nothing, so block and instruction need not belong together.
RefFunctionLocations(g) ==
    LET blocks == {BlockRef(g, b) : b \in 1..Len(FunctionAt(g).blocks)}
        instructions == UNION {{InstructionRef(c, i) : i \in 1..Len(BlockAt(c).instructions)}
                               : c \in blocks}
        edges == UNION {{EdgeRef(g, b, e) : e \in 1..Len(FunctionAt(g).edges_out[b])}
                        : b \in 1..Len(FunctionAt(g).blocks)}
    IN {RefInstruction(b, i) : b \in blocks, i \in instructions}
       \cup {RefEdge(e) : e \in edges}
       \cup {RefEmptyBlock(b) : b \in blocks}

Max(S) == CHOOSE x \in S : \A y \in S : x >= y

\* The owned locations read from a serialized form: every index is one the
\* program could hold, or the first one it cannot.
ProgramLocations ==
    LET blocks == Max({0} \cup {Len(program[f].blocks) : f \in 1..Len(program)})
        instructions ==
            Max({0} \cup UNION {{Len(program[f].blocks[b].instructions) :
                                  b \in 1..Len(program[f].blocks)} : f \in 1..Len(program)})
        function_locations ==
            {OwnedInstruction(b, i) : b \in 0..blocks, i \in 0..instructions}
            \cup {OwnedEdge(h, t) : h \in 0..blocks, t \in 0..blocks}
            \cup {OwnedEmptyBlock(b) : b \in 0..blocks}
    IN {ProgramLocation(f, l) : f \in 0..Len(program), l \in function_locations}

\* The borrowed locations the last operation handed to the caller
Returned ==
    CASE op = "new" -> {ret}
      [] op = "advance_forward" ->
           IF ret.tag = "Ok" THEN {ret.val[k] : k \in 1..Len(ret.val)} ELSE {}
      [] op = "migrate" -> IF ret.tag = "Ok" THEN {ret.val} ELSE {}
      [] op \in {"apply", "from_address"} -> IF IsSome(ret) THEN {Unwrapped(ret)} ELSE {}
      [] OTHER -> {}

\* the target instance stays alive as long as a location borrows from it
TargetWhile(loc) ==
    IF loc # None /\ Unwrapped(loc).function.prog = "target" THEN target ELSE program

Init ==
    /\ program \in Programs
    /\ target = program
    /\ op = "init"
    /\ held = None
    /\ owned = None
    /\ to = "none"
    /\ addr = None
    /\ ret = None

\* A behaviour follows one location from the place the caller got it.
New ==
    /\ op = "init"
    /\ \E prog \in {"program", "detached"} :
      \E function \in FunctionRefs(prog), g \in FunctionRefs(prog) :
        \E function_location \in RefFunctionLocations(g) :
          /\ op' = "new"
          /\ ret' = new(function, function_location)
          /\ held' = None
          /\ owned' = None
          /\ to' = "none"
          /\ addr' = None
          /\ target' = program
          /\ UNCHANGED program

FromAddress ==
    /\ op = "init"
    /\ \E a \in AddressesSought :
      /\ op' = "from_address"
      /\ addr' = Some(a)
      /\ ret' = from_address(program, "program", a)
      /\ held' = None
      /\ owned' = None
      /\ to' = "none"
      /\ target' = program
      /\ UNCHANGED program

AdvanceForward ==
    \E self \in Returned :
      /\ op' = "advance_forward"
      /\ held' = Some(self)
      /\ ret' = advance_forward(self)
      /\ owned' = None
      /\ to' = "none"
      /\ addr' = None
      /\ target' = TargetWhile(Some(self))
      /\ UNCHANGED program

Lower ==
    \E self \in Returned :
      /\ op' = "from"
      /\ held' = Some(self)
      /\ ret' = ProgramLocation_from(self)
      /\ owned' = IF ret' = Panic THEN None ELSE Some(ret')
      /\ to' = "none"
      /\ addr' = None
      /\ target' = TargetWhile(Some(self))
      /\ UNCHANGED program

Deserialize ==
    /\ op = "init"
    /\ \E o \in ProgramLocations :
      /\ op' = "deserialize"
      /\ owned' = Some(o)
      /\ ret' = o
      /\ held' = None
      /\ to' = "none"
      /\ addr' = None
      /\ target' = program
      /\ UNCHANGED program

\* the instances an operation on loc may name: the program itself, and either
\* the target loc borrows from or a fresh one
Apply ==
    /\ op \in {"from", "deserialize"}
    /\ owned # None
    /\ op' = "apply"
    /\ \/ /\ to' = "program"
          /\ target' = TargetWhile(held)
          /\ ret' = apply(Unwrapped(owned), program, "program")
       \/ /\ to' = "target"
          /\ op = "from"
          /\ target' \in IF Unwrapped(held).function.prog = "target"
                         THEN {target} ELSE Targets(program)
          /\ ret' = apply(Unwrapped(owned), target', "target")
    /\ UNCHANGED <<program, held, owned>>
    /\ addr' = None

Migrate ==
    \E self \in Returned :
      /\ op' = "migrate"
      /\ held' = Some(self)
      /\ owned' = None
      /\ addr' = None
      /\ \/ /\ to' = "program"
            /\ target' = TargetWhile(Some(self))
            /\ ret' = migrate(self, program, "program")
         \/ /\ to' = "target"
            /\ target' \in IF self.function.prog = "target" THEN {target}
                           ELSE Targets(program)
            /\ ret' = migrate(self, target', "target")
      /\ UNCHANGED program

Next ==
    \/ New
    \/ FromAddress
    \/ AdvanceForward
    \/ Lower
    \/ Deserialize
    \/ Apply
    \/ Migrate

Spec == Init /\ [][Next]_vars

\* A forward walk: the caller builds a location and calls advance_forward on
\* one of the successors for as long as there is one.
WalkNext ==
    \/ New
    \/ AdvanceForward

SpecWalk == Init /\ [][WalkNext]_vars /\ WF_vars(AdvanceForward)

(***************************************************************************)
(* Properties                                                              *)
(***************************************************************************)
\* the location the last operation was called on
Self == Unwrapped(held)

InFunction(function, r) == r.prog = function.prog /\ r.f = function.f

\* The invariant of a borrowed location: its objects belong to its function, an
\* Instruction's block contains the instruction, an EmptyBlock's block is empty.
WellFormed(loc) ==
    LET l == loc.function_location
    IN CASE l.variant = "Instruction" ->
              /\ InFunction(loc.function, l.block)
              /\ InFunction(loc.function, l.instruction)
              /\ l.instruction.b = l.block.b
         [] l.variant = "Edge" -> InFunction(loc.function, l.edge)
         [] l.variant = "EmptyBlock" ->
              /\ InFunction(loc.function, l.block)
              /\ BlockAt(l.block).instructions = <<>>

Advanced(variant) ==
    /\ op = "advance_forward"
    /\ Self.function_location.variant = variant

\* the out-edges of the block a location names, as the graph enumerates them
OutEdges(block) == FunctionAt(block).edges_out[block.b]

EdgeLocation(function, b, k) == new(function, RefEdge(EdgeRef(function, b, k)))

\* the <<head, tail>> pairs of the Edge locations of a successor list
EdgePairs(result) ==
    [k \in 1..Len(result.val) |-> EdgeAt(result.val[k].function_location.edge)]

\* C1: lowering a well-formed location of a program and applying the result to
\* the same program gives back the location: same function, block, instruction
\* or edge objects, never absent.
C1_RoundTripCase ==
    /\ op = "apply"
    /\ held # None
    /\ WellFormed(Self)
    /\ to = Self.function.prog

C1_RoundTrip == C1_RoundTripCase => ret = Some(Self)

C1_Witness ==
    /\ C1_RoundTripCase
    /\ ret = Some(Self)
    /\ Self.function_location.variant = "Instruction"
    /\ InstructionAt(Self.function_location.instruction).index
         # Self.function_location.instruction.i - 1

\* C2: lowering never fails: for every borrowed location, also one whose
\* function has no index, it yields the function index and the indices of the
\* objects the location names.
C2_LoweringTotal ==
    op = "from" =>
      /\ ret # Panic
      /\ ret.function_index = Unwrapped(FunctionAt(Self.function).index)
      /\ LET l == Self.function_location
             o == ret.function_location
         IN /\ o.variant = l.variant
            /\ l.variant = "Instruction" =>
                 /\ o.block_index = BlockAt(l.block).index
                 /\ o.instruction_index = InstructionAt(l.instruction).index
            /\ l.variant = "Edge" =>
                 /\ o.head = EdgeAt(l.edge).head
                 /\ o.tail = EdgeAt(l.edge).tail
            /\ l.variant = "EmptyBlock" => o.block_index = BlockAt(l.block).index

\* C3: from the i-th instruction of a block, when it is not the last one,
\* advance_forward returns exactly one location: the next instruction of the
\* same block.
C3_Case ==
    /\ Advanced("Instruction")
    /\ WellFormed(Self)
    /\ Self.function_location.instruction.i
         < Len(BlockAt(Self.function_location.block).instructions)

C3_IntraBlockStep ==
    C3_Case =>
      LET block == Self.function_location.block
          i == Self.function_location.instruction.i
      IN ret = Ok(<<new(Self.function, RefInstruction(block, InstructionRef(block, i + 1)))>>)

C3_Witness ==
    /\ C3_Case
    /\ Self.function_location.instruction.i = 2
    /\ ret.tag = "Ok"
    /\ ret.val[1].function_location.instruction.i = 3

\* C4: from the last instruction of a block, advance_forward returns one Edge
\* location per out-edge of the block, in the order the graph enumerates them,
\* and nothing else.
C4_Case ==
    /\ Advanced("Instruction")
    /\ WellFormed(Self)
    /\ Self.function_location.instruction.i
         = Len(BlockAt(Self.function_location.block).instructions)

C4_EndOfBlockFanOut ==
    C4_Case =>
      LET block == Self.function_location.block
      IN /\ ret.tag = "Ok"
         /\ Len(ret.val) = Len(OutEdges(block))
         /\ \A k \in 1..Len(ret.val) : ret.val[k] = EdgeLocation(Self.function, block.b, k)

C4_Witness ==
    /\ C4_Case
    /\ ret.tag = "Ok"
    /\ Len(ret.val) >= 2
    /\ EdgePairs(ret)[1].tail > EdgePairs(ret)[2].tail

\* C5: from the last instruction of a block without out-edges, advance_forward
\* succeeds with an empty successor list.
C5_Case ==
    /\ C4_Case
    /\ OutEdges(Self.function_location.block) = <<>>

C5_TerminalBlock == C5_Case => ret = Ok(<<>>)

C5_Witness ==
    /\ C5_Case
    /\ ret = Ok(<<>>)
    /\ Len(BlockAt(Self.function_location.block).instructions) >= 2

\* C6: from an Edge location, advance_forward returns exactly one location in
\* the block whose index is the edge's tail: its first instruction, or
\* EmptyBlock when it has no instruction.
C6_Case ==
    /\ Advanced("Edge")
    /\ WellFormed(Self)

C6_EdgeLanding ==
    C6_Case =>
      \E b \in 1..Len(FunctionAt(Self.function).blocks) :
        LET tail == BlockRef(Self.function, b)
        IN /\ BlockAt(tail).index = EdgeAt(Self.function_location.edge).tail
           /\ ret = Ok(<<IF Len(BlockAt(tail).instructions) = 0
                        THEN new(Self.function, RefEmptyBlock(tail))
                        ELSE new(Self.function,
                                 RefInstruction(tail, InstructionRef(tail, 1)))>>)

C6_Witness ==
    /\ C6_Case
    /\ ret.tag = "Ok"
    /\ ret.val[1].function_location.variant = "Instruction"
    /\ EdgeAt(Self.function_location.edge).head # EdgeAt(Self.function_location.edge).tail

\* C7: from EmptyBlock(b), advance_forward returns one Edge location per
\* out-edge of b, and the same edges in the same order as the advance from the
\* last instruction of a block that has the same out-edges.
C7_Case ==
    /\ Advanced("EmptyBlock")
    /\ InFunction(Self.function, Self.function_location.block)

BlockRefs(prog) ==
    UNION {{BlockRef(FunctionRef(prog, f), c) : c \in 1..Len(Instance(prog)[f].blocks)}
           : f \in 1..Len(Instance(prog))}

\* the blocks that hold instructions and have the out-edges of the block named
SameOutEdges(block) ==
    {c \in BlockRefs("program") \cup BlockRefs("target") :
       BlockAt(c).instructions # <<>> /\ OutEdges(c) = OutEdges(block)}

LastInstruction(block) ==
    new(FunctionRef(block.prog, block.f),
        RefInstruction(block, InstructionRef(block, Len(BlockAt(block).instructions))))

C7_EmptyBlockFanOut ==
    C7_Case =>
      LET block == Self.function_location.block
      IN /\ ret = Ok([k \in 1..Len(OutEdges(block)) |->
                        EdgeLocation(Self.function, block.b, k)])
         /\ \A c \in SameOutEdges(block) :
              /\ advance_forward(LastInstruction(c)).tag = "Ok"
              /\ EdgePairs(advance_forward(LastInstruction(c))) = EdgePairs(ret)

C7_Witness ==
    /\ C7_Case
    /\ WellFormed(Self)
    /\ ret.tag = "Ok"
    /\ Len(ret.val) >= 2
    /\ SameOutEdges(Self.function_location.block) # {}

\* the two locations are of the same variant and name objects with the same indices
SameIndices(a, b) ==
    LET l == a.function_location
        m == b.function_location
    IN /\ FunctionAt(a.function).index = FunctionAt(b.function).index
       /\ l.variant = m.variant
       /\ l.variant = "Instruction" =>
            /\ BlockAt(l.block).index = BlockAt(m.block).index
            /\ InstructionAt(l.instruction).index = InstructionAt(m.instruction).index
       /\ l.variant = "Edge" => EdgeAt(l.edge) = EdgeAt(m.edge)
       /\ l.variant = "EmptyBlock" => BlockAt(l.block).index = BlockAt(m.block).index

\* C8: migrating a well-formed location of a program to a clone of the program
\* succeeds, and the result is of the same variant and names the objects of the
\* clone that carry the same indices.
C8_Case ==
    /\ op = "migrate"
    /\ to = "target"
    /\ target = program
    /\ Self.function.prog = "program"
    /\ WellFormed(Self)

C8_MigrationFidelity ==
    C8_Case =>
      /\ ret.tag = "Ok"
      /\ ret.val.function.prog = "target"
      /\ WellFormed(ret.val)
      /\ SameIndices(Self, ret.val)

C8_Witness ==
    /\ C8_Case
    /\ ret.tag = "Ok"
    /\ Self.function_location.variant = "Instruction"
    /\ Self.function_location.instruction.i >= 2
    /\ Self.function.f >= 2

\* C9: migrating a location whose function index no function of the target
\* carries returns a migration error whose message names that index.
C9_Case ==
    /\ op = "migrate"
    /\ FunctionAt(Self.function).index # None
    /\ \A f \in 1..Len(Instance(to)) :
         Instance(to)[f].index # FunctionAt(Self.function).index

C9_MissingFunctionNamed ==
    C9_Case =>
      ret = Err("ProgramLocationMigration",
                <<"Could not find function ", Unwrapped(FunctionAt(Self.function).index)>>)

C9_Witness ==
    /\ C9_Case
    /\ ret.tag = "Err"
    /\ FunctionAt(Self.function).index = Some(0)
    /\ Len(target) >= 1

\* C10: from_address returns the Instruction location of the first instruction
\* with the address, in the order functions, blocks and instructions are
\* enumerated, together with its block and function; instructions without an
\* address never match; it is absent exactly when no instruction has the address.
HasAddress(f, b, i) ==
    program[f].blocks[b].instructions[i].address = Some(Unwrapped(addr))

WithAddress ==
    UNION {UNION {{<<f, b, i>> : i \in {i \in 1..Len(program[f].blocks[b].instructions) :
                                          HasAddress(f, b, i)}}
                  : b \in 1..Len(program[f].blocks)}
           : f \in 1..Len(program)}

C10_FirstMatch ==
    op = "from_address" =>
      /\ ret = None <=> WithAddress = {}
      /\ ret # None =>
           LET loc == Unwrapped(ret)
               l == loc.function_location
           IN /\ loc.function.prog = "program"
              /\ l.variant = "Instruction"
              /\ WellFormed(loc)
              /\ <<loc.function.f, l.block.b, l.instruction.i>> \in WithAddress
              /\ \A x \in WithAddress :
                   \/ x[1] > loc.function.f
                   \/ x[1] = loc.function.f /\ x[2] > l.block.b
                   \/ x[1] = loc.function.f /\ x[2] = l.block.b /\ x[3] >= l.instruction.i

C10_Witness ==
    /\ op = "from_address"
    /\ ret # None
    /\ \E x \in WithAddress : x[1] > Unwrapped(ret).function.f

\* the owned location names a function of p and, inside it, a block and an
\* instruction of that block, an edge, or a block
Resolves(o, p) ==
    \E f \in 1..Len(p) :
      /\ p[f].index = Some(o.function_index)
      /\ LET l == o.function_location
         IN CASE l.variant = "Instruction" ->
                   \E b \in 1..Len(p[f].blocks) :
                     /\ p[f].blocks[b].index = l.block_index
                     /\ \E i \in 1..Len(p[f].blocks[b].instructions) :
                          p[f].blocks[b].instructions[i].index = l.instruction_index
              [] l.variant = "Edge" ->
                   \E b \in 1..Len(p[f].blocks) : \E e \in 1..Len(p[f].edges_out[b]) :
                     p[f].edges_out[b][e] = [head |-> l.head, tail |-> l.tail]
              [] l.variant = "EmptyBlock" ->
                   \E b \in 1..Len(p[f].blocks) : p[f].blocks[b].index = l.block_index

\* every object the location names belongs to the instance prog
NamesOnly(loc, prog) ==
    LET l == loc.function_location
    IN /\ loc.function.prog = prog
       /\ l.variant = "Instruction" => l.block.prog = prog /\ l.instruction.prog = prog
       /\ l.variant = "Edge" => l.edge.prog = prog
       /\ l.variant = "EmptyBlock" => l.block.prog = prog

\* C11: apply returns absent, without error or abort, when the function, the
\* block, the instruction in that block or the edge is not found; it returns a
\* location exactly when every lookup succeeds, and the location names objects
\* of the program applied to only.
C11_SoftMiss ==
    op = "apply" =>
      /\ ret = None \/ Len(ret) = 1
      /\ ret # None <=> Resolves(Unwrapped(owned), Instance(to))
      /\ ret # None => NamesOnly(Unwrapped(ret), to)

C11_Witness ==
    /\ op = "apply"
    /\ ret = None
    /\ Unwrapped(owned).function_location.variant = "Instruction"
    /\ Resolves([Unwrapped(owned) EXCEPT
                   !.function_location =
                       OwnedEmptyBlock(Unwrapped(owned).function_location.block_index)],
                Instance(to))

\* the operation that produced the locations in Returned is one the invariant
\* of borrowed locations covers
C12_Case ==
    \/ op \in {"from_address", "apply"}
    \/ op \in {"migrate", "advance_forward"} /\ WellFormed(Self)

\* C12: every borrowed location that from_address or apply produces, and every
\* one that migrate or advance_forward produces from a well-formed location, is
\* well-formed: its objects belong to its function, an Instruction's block
\* contains the instruction, and an EmptyBlock's block has no instructions.
C12_ProducedWellFormed ==
    C12_Case => \A loc \in Returned : WellFormed(loc)

\* the part of C12 that does not concern the emptiness of an EmptyBlock's block
C12_SameFunctionAndBlock ==
    C12_Case =>
      \A loc \in Returned :
        WellFormed(loc) \/ /\ loc.function_location.variant = "EmptyBlock"
                           /\ InFunction(loc.function, loc.function_location.block)

\* the structural inconsistencies advance_forward meets: the instruction index
\* is not in the block's instruction sequence, the edge's tail names no block
\* of the function, or the block that ended is not in the function's graph
Inconsistent(loc) ==
    LET l == loc.function_location
        function == FunctionAt(loc.function)
        InGraph(index) == \E b \in 1..Len(function.blocks) : function.blocks[b].index = index
    IN CASE l.variant = "Instruction" ->
              LET instructions == BlockAt(l.block).instructions
                  index == InstructionAt(l.instruction).index
              IN \/ \A i \in 1..Len(instructions) : instructions[i].index # index
                 \/ /\ instructions[Len(instructions)].index = index
                    /\ \A i \in 1..(Len(instructions) - 1) : instructions[i].index # index
                    /\ ~InGraph(BlockAt(l.block).index)
         [] l.variant = "Edge" -> ~InGraph(EdgeAt(l.edge).tail)
         [] l.variant = "EmptyBlock" -> ~InGraph(BlockAt(l.block).index)

\* C13: advance_forward returns an error, and no successor list, exactly when
\* the Instruction location's instruction index is not in its block, the Edge
\* location's tail names no block of the function, or the block of an
\* end-of-block Instruction or EmptyBlock location is missing from the graph;
\* in every other case it returns a successor list.
C13_FailsLoudly ==
    op = "advance_forward" =>
      /\ Inconsistent(Self) => ret.tag = "Err"
      /\ ~Inconsistent(Self) => ret.tag = "Ok"

\* C13 for the locations whose function has an index
C13_IndexedFailsLoudly ==
    (op = "advance_forward" /\ FunctionAt(Self.function).index # None) =>
      /\ Inconsistent(Self) => ret.tag = "Err"
      /\ ~Inconsistent(Self) => ret.tag = "Ok"

\* the function of the instance migrated to that has the index of Self's function
C14_Function ==
    Instance(to)[CHOOSE f \in 1..Len(Instance(to)) :
                   Instance(to)[f].index = FunctionAt(Self.function).index]

C14_Case ==
    /\ op = "migrate"
    /\ FunctionAt(Self.function).index # None
    /\ \E f \in 1..Len(Instance(to)) :
         Instance(to)[f].index = FunctionAt(Self.function).index

\* C14: once the function is found in the target, migrate resolves in a fixed
\* order and fails with a migration error naming the first missing entity: the
\* block index of an Instruction location, else the instruction index when the
\* block lacks the instruction; the (head, tail) pair of an Edge location; the
\* block index of an EmptyBlock location. It returns a location otherwise.
C14_FirstMissingNamed ==
    C14_Case =>
      LET l == Self.function_location
          function == C14_Function
          HasBlock(index) ==
              \E b \in 1..Len(function.blocks) : function.blocks[b].index = index
          HasInstruction(bindex, index) ==
              LET b == Min({c \in 1..Len(function.blocks) : function.blocks[c].index = bindex})
              IN \E i \in 1..Len(function.blocks[b].instructions) :
                   function.blocks[b].instructions[i].index = index
          HasEdge(e) ==
              \E b \in 1..Len(function.blocks) : \E k \in 1..Len(function.edges_out[b]) :
                function.edges_out[b][k] = e
      IN CASE l.variant = "Instruction" ->
                LET bindex == BlockAt(l.block).index
                    index == InstructionAt(l.instruction).index
                IN IF ~HasBlock(bindex)
                      THEN ret = MigrationError(<<"Could not find block ", bindex>>)
                      ELSE IF ~HasInstruction(bindex, index)
                      THEN ret = MigrationError(<<"Could not find instruction ", index>>)
                      ELSE ret.tag = "Ok"
           [] l.variant = "Edge" ->
                LET e == EdgeAt(l.edge)
                IN IF ~HasEdge(e)
                      THEN ret = MigrationError(<<"Could not find edge ", e.head, ",", e.tail>>)
                      ELSE ret.tag = "Ok"
           [] l.variant = "EmptyBlock" ->
                LET bindex == BlockAt(l.block).index
                IN IF ~HasBlock(bindex)
                      THEN ret = MigrationError(<<"Could not find empty block ", bindex>>)
                      ELSE ret.tag = "Ok"

\* the block is missing and so is the instruction: the block is the one named
C14_Witness ==
    /\ C14_Case
    /\ Self.function_location.variant = "Instruction"
    /\ ret = MigrationError(<<"Could not find block ",
                              BlockAt(Self.function_location.block).index>>)
    /\ \A b \in 1..Len(C14_Function.blocks) :
         \A i \in 1..Len(C14_Function.blocks[b].instructions) :
           C14_Function.blocks[b].instructions[i].index
             # InstructionAt(Self.function_location.instruction).index

SuccessorVariants == {ret.val[k].function_location.variant : k \in 1..Len(ret.val)}

\* C16: along a forward walk the successor of an Edge location is a single
\* location that is no Edge; the successors of an EmptyBlock location are all
\* Edges; the successors of an Instruction location are a single Instruction in
\* the same block or only Edges; and every Edge successor of an Instruction or
\* EmptyBlock location has the index of that location's block as its head.
C16_Alternation ==
    (op = "advance_forward" /\ ret.tag = "Ok") =>
      LET l == Self.function_location
      IN /\ l.variant = "Edge" =>
              Len(ret.val) = 1 /\ "Edge" \notin SuccessorVariants
         /\ l.variant = "EmptyBlock" => SuccessorVariants \subseteq {"Edge"}
         /\ l.variant = "Instruction" =>
              \/ /\ Len(ret.val) = 1
                 /\ ret.val[1].function_location.variant = "Instruction"
                 /\ ret.val[1].function_location.block = l.block
              \/ SuccessorVariants \subseteq {"Edge"}
         /\ l.variant \in {"Instruction", "EmptyBlock"} =>
              \A k \in 1..Len(ret.val) :
                ret.val[k].function_location.variant = "Edge" =>
                  EdgeAt(ret.val[k].function_location.edge).head = BlockAt(l.block).index

\* the last instruction of a block that is not the first of its function fans
\* out into Edge locations
C16_Witness ==
    /\ Advanced("Instruction")
    /\ WellFormed(Self)
    /\ Self.function_location.block.b > 1
    /\ ret.tag = "Ok"
    /\ Len(ret.val) >= 1
    /\ SuccessorVariants = {"Edge"}

\* the location migrated, lowered and applied to the instance migrated to
C17_Applied == apply(ProgramLocation_from(Self), Instance(to), to)

C17_Case ==
    /\ op = "migrate"
    /\ FunctionAt(Self.function).index # None

\* C17: for a location whose function has an index, migrate to a target
\* succeeds exactly when applying the lowered location to that target is
\* present, and then both name the same function, block, instruction or edge.
C17_MigrateIsLowerApply ==
    C17_Case =>
      /\ ret.tag = "Ok" <=> C17_Applied # None
      /\ ret.tag = "Ok" => C17_Applied = Some(ret.val)

\* an Instruction location migrated to a target in which block and instruction
\* indices are no longer the positions
C17_Witness ==
    /\ C17_Case
    /\ to = "target"
    /\ ret.tag = "Ok"
    /\ C17_Applied = Some(ret.val)
    /\ ret.val.function_location.variant = "Instruction"
    /\ ret.val # Self
    /\ BlockAt(ret.val.function_location.block).index
         # InstructionAt(ret.val.function_location.instruction).index

C18_Case ==
    /\ op = "apply"
    /\ ret # None

\* C18: when applying an owned location to a program is present, lowering the
\* location obtained gives the owned location back: the same function index,
\* the same variant and the same indices.
C18_ReverseRoundTrip ==
    C18_Case => ProgramLocation_from(Unwrapped(ret)) = Unwrapped(owned)

\* an owned location applied to a program whose function indices are not the
\* positions of the functions
C18_Witness ==
    /\ C18_Case
    /\ ProgramLocation_from(Unwrapped(ret)) = Unwrapped(owned)
    /\ Unwrapped(owned).function_index # Unwrapped(ret).function.f - 1

\* the indices of the blocks the out-edges of the blocks indexed in S lead to
Tails(function, S) ==
    UNION {{function.edges_out[b][e].tail : e \in 1..Len(function.edges_out[b])}
           : b \in {c \in 1..Len(function.blocks) : function.blocks[c].index \in S}}

\* the indices of the blocks reached from S in 1..n steps along the edges
RECURSIVE Descendants(_, _, _)
Descendants(function, S, n) ==
    IF n = 0 THEN {}
    ELSE Tails(function, S) \cup Descendants(function, Tails(function, S), n - 1)

Acyclic(function) ==
    \A b \in 1..Len(function.blocks) :
      function.blocks[b].index
        \notin Descendants(function, {function.blocks[b].index}, Len(function.blocks))

\* the location a walk holds after k more steps from loc, taking the first
\* successor each time
RECURSIVE Walked(_, _)
Walked(loc, k) ==
    IF k = 0 THEN loc ELSE Walked(advance_forward(loc).val[1], k - 1)

\* the walk from the location an edge landed on visits the instructions of
\* the block in their order, and fans out into Edge locations at the last only
C19_Cover ==
    (Advanced("Edge") /\ WellFormed(Self) /\ ret.tag = "Ok"
       /\ ret.val[1].function_location.variant = "Instruction") =>
      LET block == ret.val[1].function_location.block
          N == Len(BlockAt(block).instructions)
      IN /\ \A k \in 0..(N - 1) :
              Walked(ret.val[1], k)
                = new(Self.function, RefInstruction(block, InstructionRef(block, k + 1)))
         /\ LET last == advance_forward(Walked(ret.val[1], N - 1))
            IN /\ last.tag = "Ok"
               /\ \A e \in 1..Len(last.val) : last.val[e].function_location.variant = "Edge"

C19_NoError ==
    (op = "advance_forward" /\ WellFormed(Self) /\ Acyclic(FunctionAt(Self.function))) =>
      ret.tag = "Ok"

C19_Start == op = "new" /\ WellFormed(ret) /\ Acyclic(FunctionAt(ret.function))

C19_End == op = "advance_forward" /\ ret = Ok(<<>>)

\* C19: a forward walk from the location an edge lands on visits the N
\* instructions of the block in their declared order and yields Edge locations
\* at step N only; and in a well-formed function with an acyclic graph every
\* walk of repeated advance_forward meets no error and reaches an empty
\* successor list after finitely many steps.
C19_CoverAndTerminate ==
    /\ []C19_Cover
    /\ []C19_NoError
    /\ C19_Start ~> C19_End

\* a walk over an acyclic graph went through a block of two instructions and
\* over an edge, and ended
C19_Witness ==
    /\ C19_End
    /\ Acyclic(FunctionAt(Self.function))
    /\ WellFormed(Self)
    /\ Self.function_location.variant = "Instruction"
    /\ Self.function_location.instruction.i = 2
    /\ Self.function_location.block.b # 1
====
